---------------------------- MODULE Spec2Model ----------------------------
(***************************************************************************)
(* A model of conference_paper_figures/figure_rq2.py: one linear run that  *)
(* loads a tab separated table, keeps the top 5 scores of every prompting  *)
(* technique, encodes models as markers and decision points as colors,     *)
(* draws the scatter plot with its labels, legends and axes, and saves the *)
(* figure in four formats.                                                 *)
(*                                                                         *)
(* Representation.  A Python string is a sequence of one-character         *)
(* strings, so that split, upper, replace and string comparison are        *)
(* computed and not looked up.  A score is an integer number of            *)
(* thousandths (700 stands for 0.700); an x coordinate of a text is in     *)
(* hundredths; the y limits are in units of 1e-5, so that 1.05 * max is    *)
(* max * 105.  Scores are finite numbers (no NaN) whose third decimal is   *)
(* not 5, which keeps the two-decimal formatting free of binary rounding.  *)
(***************************************************************************)
EXTENDS Integers, Sequences, FiniteSets, Bags, TLC

\* ------------------------------------------------------------ bounds
\* Longest table drawn from a long pool of records.
MaxRows == 7
\* Longest table drawn from a short pool of records.
ShortRows == 4
\* Longest table of the wide family (many distinct models and categories).
WideRows == 13

\* ------------------------------------------------------------ strings
Lower == <<"a","b","c","d","e","f","g","h","i","j","k","l","m",
           "n","o","p","q","r","s","t","u","v","w","x","y","z">>
Upper == <<"A","B","C","D","E","F","G","H","I","J","K","L","M",
           "N","O","P","Q","R","S","T","U","V","W","X","Y","Z">>
Digits == <<"0","1","2","3","4","5","6","7","8","9">>

Range(s) == {s[i] : i \in DOMAIN s}

PosIn(c, s) == CHOOSE i \in DOMAIN s : s[i] = c

\* The code point of a character (ASCII), which orders Python strings.
Ord(c) ==
    IF c \in Range(Lower) THEN 96 + PosIn(c, Lower)
    ELSE IF c \in Range(Upper) THEN 64 + PosIn(c, Upper)
    ELSE IF c \in Range(Digits) THEN 47 + PosIn(c, Digits)
    ELSE CASE c = " " -> 32
           [] c = "-" -> 45
           [] c = "." -> 46
           [] c = "/" -> 47
           [] c = "_" -> 95

\* str.upper() on one ASCII character.
UpperChar(c) == IF c \in Range(Lower) THEN Upper[PosIn(c, Lower)] ELSE c

\* Python's < on strings: lexicographic by code point, a proper prefix first.
RECURSIVE StrLess(_, _)
StrLess(a, b) ==
    IF b = <<>> THEN FALSE
    ELSE IF a = <<>> THEN TRUE
    ELSE IF Ord(a[1]) # Ord(b[1]) THEN Ord(a[1]) < Ord(b[1])
    ELSE StrLess(Tail(a), Tail(b))

\* str.split(sep): the pieces between the occurrences of sep, empty pieces kept.
RECURSIVE Split(_, _)
Split(s, sep) ==
    IF \A i \in DOMAIN s : s[i] # sep THEN <<s>>
    ELSE LET k == CHOOSE i \in DOMAIN s :
                      s[i] = sep /\ \A j \in 1..(i - 1) : s[j] # sep
         IN  <<SubSeq(s, 1, k - 1)>> \o Split(SubSeq(s, k + 1, Len(s)), sep)

\* ''.join(list of strings)
RECURSIVE Join(_)
Join(ss) == IF ss = <<>> THEN <<>> ELSE ss[1] \o Join(Tail(ss))

\* str.replace(old, new) for one-character old and new.
Replace(s, old, new) == [i \in DOMAIN s |-> IF s[i] = old THEN new ELSE s[i]]

\* ------------------------------------------------------------ lists
\* pandas Series.unique(): the distinct values in order of first appearance.
RECURSIVE Unique(_)
Unique(s) ==
    IF s = <<>> THEN <<>>
    ELSE LET front == Unique(SubSeq(s, 1, Len(s) - 1))
             x == s[Len(s)]
         IN  IF x \in Range(front) THEN front ELSE Append(front, x)

\* sorted(list of strings): ascending.
RECURSIVE InsertStr(_, _)
InsertStr(x, s) ==
    IF s = <<>> THEN <<x>>
    ELSE IF StrLess(s[1], x) THEN <<s[1]>> \o InsertStr(x, Tail(s))
    ELSE <<x>> \o s

RECURSIVE Sorted(_)
Sorted(s) == IF s = <<>> THEN <<>> ELSE InsertStr(s[1], Sorted(Tail(s)))

Column(rows, col) == [i \in DOMAIN rows |-> rows[i][col]]

\* ------------------------------------------------------------ program constants
\* nlargest(5, ...)
TopN == 5
\* y_min = 0.5, in units of 1e-5
YMin == 50000
\* y_max = max(...) * 1.05: the factor, in hundredths
YPad == 105
\* row['prompt_numeric'] + 0.15: the offset, in hundredths
TextOffset == 15

markers == <<"o", "s", "D", "^", "v", "<", ">", "p", "*", "h", "H", "X">>

\* seaborn's "colorblind" palette: ten colors.
colorblind == <<"#0173B2", "#DE8F05", "#029E73", "#D55E00", "#CC78BC",
                "#CA9161", "#FBAFE4", "#949494", "#ECE133", "#56B4E9">>

\* sns.color_palette(name, n_colors): the first n_colors entries of the named
\* palette, which is cycled when n_colors exceeds its length.
color_palette(palette, n_colors) ==
    [i \in 1..n_colors |-> palette[((i - 1) % Len(palette)) + 1]]

PDF == "prompt_top5_performance_plot.pdf"
PNG == "prompt_top5_performance_plot.png"
TIFF == "prompt_top5_performance_plot.tiff"
EPS == "prompt_top5_performance_plot.eps"

\* ------------------------------------------------------------ input tables
Row(l, p, d, f) ==
    [llm |-> l, prompt |-> p, ssvc_decision_point |-> d, f1_harmonic_mean |-> f]

gpt == <<"o","/","g","p","t","-","4">>
claude == <<"c","l","a","u","d","e">>
llama == <<"m","/","l","l","a","m","a","-","3","-","8","b">>

few_shot == <<"f","e","w","_","s","h","o","t">>
full_set == <<"f","u","l","l","_","s","e","t">>
zero_shot == <<"z","e","r","o","_","s","h","o","t">>
\* A technique name with a trailing underscore: its last word is empty.
cot_ == <<"c","o","t","_">>

exploitation == <<"e","x","p","l","o","i","t","a","t","i","o","n">>
human_impact == <<"h","u","m","a","n","_","i","m","p","a","c","t">>

\* The pools the long tables of Spec are drawn from: two techniques, one of
\* them with two scores and long enough to be cut; one technique whose rows
\* tie on score and differ in model and category.
LongPools ==
    { { Row(gpt, few_shot, exploitation, 700),
        Row(claude, few_shot, exploitation, 900),
        Row(llama, zero_shot, human_impact, 480) },
      { Row(gpt, few_shot, exploitation, 700),
        Row(claude, few_shot, human_impact, 700) } }

\* The pools of the short tables: three techniques, two of them with the
\* same abbreviation; a malformed technique.
ShortPools ==
    { { Row(llama, zero_shot, human_impact, 480),
        Row(claude, few_shot, human_impact, 700),
        Row(gpt, full_set, exploitation, 617) },
      { Row(gpt, few_shot, exploitation, 700),
        Row(gpt, cot_, exploitation, 803) } }

SeqsUpTo(S, n) == UNION {[1..k -> S] : k \in 0..n}

Tables ==
    UNION ({SeqsUpTo(pool, MaxRows) : pool \in LongPools}
             \cup {SeqsUpTo(pool, ShortRows) : pool \in ShortPools})

\* The wide family: n rows over k models and j categories, TopN rows per
\* technique, so that every row is kept by the filter; models and categories
\* appear in descending name order.
WideModel(i) == <<"v", "/", "m", Lower[i], "-", "x">>
WideDecision(i) == <<"d", "_", Lower[i]>>
WidePrompt(i) == <<"t", "_", Lower[i]>>

WideTable(n, k, j) ==
    [i \in 1..n |-> Row(WideModel(k - ((i - 1) % k)),
                        WidePrompt(((i - 1) \div TopN) + 1),
                        WideDecision(j - ((i - 1) % j)),
                        502 + 12 * i)]

WideTables ==
    UNION {{WideTable(n, k, j) : k \in 1..n, j \in 1..n} : n \in 1..WideRows}

\* ------------------------------------------------------------ state
VARIABLES
    csv,                  \* the rows of llm_pt_sdp_f1_harmonic_means.csv
    pc,                   \* the block of the script that runs next
    df,                   \* the loaded table, each row with its index
    llms, prompts, decision_points,
    prompt_abbrev,        \* technique -> abbreviation
    prompt_mapping,       \* technique -> x position
    top_df,               \* the combined top-5 subset
    top_llms, top_decision_points,
    llm_markers,          \* model -> marker shape
    decision_colors,      \* category -> color
    scatters,             \* the ax.scatter calls, in order
    texts,                \* the ax.text objects handed to adjust_text
    legend_elements, llm_legend, decision_legend,
    xticks, xticklabels, ylim,
    files                 \* the output files written so far, in order

vars == <<csv, pc, df, llms, prompts, decision_points, prompt_abbrev,
          prompt_mapping, top_df, top_llms, top_decision_points, llm_markers,
          decision_colors, scatters, texts, legend_elements, llm_legend,
          decision_legend, xticks, xticklabels, ylim, files>>

loadVars == <<df, llms, prompts, decision_points>>
filterVars == <<top_df>>
encodeVars == <<top_llms, top_decision_points, llm_markers, decision_colors>>
renderVars == <<scatters, texts>>
legendVars == <<legend_elements, llm_legend, decision_legend>>
axesVars == <<xticks, xticklabels, ylim>>

\* The empty dict, list and DataFrame.
Empty == <<>>

InitRest ==
    /\ pc = "load"
    /\ df = Empty /\ llms = Empty /\ prompts = Empty /\ decision_points = Empty
    /\ prompt_abbrev = Empty /\ prompt_mapping = Empty
    /\ top_df = Empty /\ top_llms = Empty /\ top_decision_points = Empty
    /\ llm_markers = Empty /\ decision_colors = Empty
    /\ scatters = Empty /\ texts = Empty
    /\ legend_elements = Empty /\ llm_legend = Empty /\ decision_legend = Empty
    /\ xticks = Empty /\ xticklabels = Empty /\ ylim = Empty
    /\ files = Empty

Init == csv \in Tables /\ InitRest

InitWide == csv \in WideTables /\ InitRest

\* ------------------------------------------------------------ load (lines 21-27)
\* pd.read_csv: the rows of the file under the default index 0, 1, 2, ...
read_csv(file) ==
    [i \in DOMAIN file |->
        [index |-> i - 1, llm |-> file[i].llm, prompt |-> file[i].prompt,
         ssvc_decision_point |-> file[i].ssvc_decision_point,
         f1_harmonic_mean |-> file[i].f1_harmonic_mean]]

Load ==
    /\ pc = "load"
    /\ df' = read_csv(csv)
    /\ llms' = Unique(Column(df', "llm"))
    /\ prompts' = Unique(Column(df', "prompt"))
    /\ decision_points' = Unique(Column(df', "ssvc_decision_point"))
    /\ pc' = "abbreviate"
    /\ UNCHANGED <<csv, prompt_abbrev, prompt_mapping, filterVars, encodeVars,
                   renderVars, legendVars, axesVars, files>>

\* ------------------------------------------------------------ abbreviations (lines 29-35)
\* Mutant: word[0] without .upper().
Abbrev_no_upper(prompt) ==
    LET words == Split(prompt, "_")
    IN  [i \in DOMAIN words |-> words[i][1]]

\* ''.join([word[0].upper() for word in prompt.split('_')])
Abbrev(prompt) ==
    LET words == Split(prompt, "_")
    IN  [i \in DOMAIN words |-> UpperChar(words[i][1])]

\* word[0] raises IndexError on an empty word.
AbbrevRaises(prompt) == \E w \in Range(Split(prompt, "_")) : w = <<>>

\* The loop stops at the first technique whose abbreviation raises; the
\* entries made before it stay in the dict.
Abbreviate ==
    /\ pc = "abbreviate"
    /\ LET bad == {i \in DOMAIN prompts : AbbrevRaises(prompts[i])}
           stop == IF bad = {} THEN Len(prompts) + 1
                   ELSE CHOOSE i \in bad : \A j \in bad : i <= j
           done == {prompts[i] : i \in 1..(stop - 1)}
       IN  /\ prompt_abbrev' = [p \in done |-> Abbrev(p)]
           /\ pc' = IF bad = {} THEN "map" ELSE "aborted"
    /\ UNCHANGED <<csv, loadVars, prompt_mapping, filterVars, encodeVars,
                   renderVars, legendVars, axesVars, files>>

\* ------------------------------------------------------------ x positions (lines 37-39)
\* Mutant: enumerate(prompts) without sorted().
PromptMapping_unsorted(ps) == [p \in Range(ps) |-> PosIn(p, ps) - 1]

\* {prompt: i for i, prompt in enumerate(sorted(prompts))}
PromptMapping(ps) ==
    LET order == Sorted(ps)
    IN  [p \in Range(ps) |-> PosIn(p, order) - 1]

\* df['prompt_numeric'] = df['prompt'].map(prompt_mapping)
WithPromptNumeric(rows, mapping) ==
    [i \in DOMAIN rows |->
        [index |-> rows[i].index, llm |-> rows[i].llm, prompt |-> rows[i].prompt,
         ssvc_decision_point |-> rows[i].ssvc_decision_point,
         f1_harmonic_mean |-> rows[i].f1_harmonic_mean,
         prompt_numeric |-> mapping[rows[i].prompt]]]

MapPrompts ==
    /\ pc = "map"
    /\ prompt_mapping' = PromptMapping(prompts)
    /\ df' = WithPromptNumeric(df, prompt_mapping')
    /\ pc' = "filter"
    /\ UNCHANGED <<csv, llms, prompts, decision_points, prompt_abbrev, filterVars,
                   encodeVars, renderVars, legendVars, axesVars, files>>

\* ------------------------------------------------------------ top-5 filter (lines 41-47)
\* The rows in descending order of score, rows of equal score in their
\* original order (keep='first').
RECURSIVE InsertDesc(_, _)
InsertDesc(r, s) ==
    IF s = <<>> THEN <<r>>
    ELSE IF s[1].f1_harmonic_mean > r.f1_harmonic_mean
         THEN <<s[1]>> \o InsertDesc(r, Tail(s))
         ELSE <<r>> \o s

RECURSIVE SortDesc(_)
SortDesc(rows) ==
    IF rows = <<>> THEN <<>> ELSE InsertDesc(rows[1], SortDesc(Tail(rows)))

\* Mutant: nsmallest in place of nlargest (the n lowest scores).
nlargest_nsmallest(rows, n) ==
    LET ranked == SortDesc(rows)
        k == IF Len(ranked) < n THEN Len(ranked) ELSE n
    IN  [i \in 1..k |-> ranked[Len(ranked) + 1 - i]]

\* Mutant: head(n) in place of nlargest (the first n rows, unranked).
nlargest_head(rows, n) ==
    SubSeq(rows, 1, IF Len(rows) < n THEN Len(rows) ELSE n)

\* DataFrame.nlargest(n, 'f1_harmonic_mean')
nlargest(rows, n) ==
    LET ranked == SortDesc(rows)
    IN  SubSeq(ranked, 1, IF Len(ranked) < n THEN Len(ranked) ELSE n)

RowsOf(rows, prompt) == SelectSeq(rows, LAMBDA r : r.prompt = prompt)

\* for prompt in prompts: top_df = pd.concat([top_df, top_5_prompt])
RECURSIVE TopDf(_, _)
TopDf(rows, ps) ==
    IF ps = <<>> THEN <<>>
    ELSE TopDf(rows, SubSeq(ps, 1, Len(ps) - 1))
           \o nlargest(RowsOf(rows, ps[Len(ps)]), TopN)

Filter ==
    /\ pc = "filter"
    /\ top_df' = TopDf(df, prompts)
    /\ pc' = "encode"
    /\ UNCHANGED <<csv, loadVars, prompt_abbrev, prompt_mapping, encodeVars,
                   renderVars, legendVars, axesVars, files>>

\* ------------------------------------------------------------ encodings (lines 49-60)
\* Mutant: enumerate(top_llms) without sorted().
LlmMarkers_unsorted(ls) ==
    [l \in Range(ls) |-> markers[((PosIn(l, ls) - 1) % Len(markers)) + 1]]

\* {llm: markers[i % len(markers)] for i, llm in enumerate(sorted(top_llms))}
LlmMarkers(ls) ==
    LET order == Sorted(ls)
    IN  [l \in Range(ls) |-> markers[((PosIn(l, order) - 1) % Len(markers)) + 1]]

\* colors = sns.color_palette("colorblind", len(top_decision_points))
\* {dp: colors[i] for i, dp in enumerate(sorted(top_decision_points))}
DecisionColors(ds) ==
    LET order == Sorted(ds)
        colors == color_palette(colorblind, Len(ds))
    IN  [d \in Range(ds) |-> colors[PosIn(d, order)]]

\* An empty table leaves top_df = pd.DataFrame() without columns, and
\* top_df['llm'] raises KeyError.
Encode ==
    /\ pc = "encode"
    /\ IF prompts = <<>>
       THEN /\ pc' = "aborted"
            /\ UNCHANGED encodeVars
       ELSE /\ top_llms' = Unique(Column(top_df, "llm"))
            /\ top_decision_points' = Unique(Column(top_df, "ssvc_decision_point"))
            /\ llm_markers' = LlmMarkers(top_llms')
            /\ decision_colors' = DecisionColors(top_decision_points')
            /\ pc' = "render"
    /\ UNCHANGED <<csv, loadVars, prompt_abbrev, prompt_mapping, filterVars,
                   renderVars, legendVars, axesVars, files>>

\* ------------------------------------------------------------ scatter plot (lines 62-107)
\* f"{x:.2f}" of a score given in thousandths.
Format2(f) ==
    LET h == (f + 5) \div 10
    IN  <<Digits[(h \div 100) + 1], ".", Digits[((h \div 10) % 10) + 1],
          Digits[(h % 10) + 1]>>

Last(s) == s[Len(s)]

\* for llm in sorted(top_llms): for decision in sorted(top_decision_points)
LoopPairs(ls, ds) ==
    [n \in 1..(Len(ls) * Len(ds)) |->
        [llm |-> ls[((n - 1) \div Len(ds)) + 1],
         decision |-> ds[((n - 1) % Len(ds)) + 1]]]

\* Mutant: the mask tests the model only.
Subset_llm_only(rows, llm, decision) ==
    SelectSeq(rows, LAMBDA r : r.llm = llm)

\* top_df[(top_df['llm'] == llm) & (top_df['ssvc_decision_point'] == decision)]
Subset(rows, llm, decision) ==
    SelectSeq(rows, LAMBDA r : r.llm = llm /\ r.ssvc_decision_point = decision)

\* ax.scatter(subset['prompt_numeric'], subset['f1_harmonic_mean'], ...)
Scatter(subset, llm, decision, mks, cols) ==
    [llm |-> llm, decision |-> decision,
     x |-> Column(subset, "prompt_numeric"),
     y |-> Column(subset, "f1_harmonic_mean"),
     c |-> [i \in DOMAIN subset |-> cols[decision]],
     marker |-> mks[llm],
     label |-> Last(Split(llm, "/")) \o <<" ", "-", " ">> \o decision]

\* ax.text(row['prompt_numeric'] + 0.15, row['f1_harmonic_mean'], label_text)
Text(row) ==
    [x |-> 100 * row.prompt_numeric + TextOffset,
     y |-> row.f1_harmonic_mean,
     s |-> Format2(row.f1_harmonic_mean)]

RECURSIVE RenderScatters(_, _, _, _)
RenderScatters(rows, pairs, mks, cols) ==
    IF pairs = <<>> THEN <<>>
    ELSE LET subset == Subset(rows, pairs[1].llm, pairs[1].decision)
             rest == RenderScatters(rows, Tail(pairs), mks, cols)
         IN  IF subset = <<>> THEN rest
             ELSE <<Scatter(subset, pairs[1].llm, pairs[1].decision, mks, cols)>>
                    \o rest

RECURSIVE RenderTexts(_, _)
RenderTexts(rows, pairs) ==
    IF pairs = <<>> THEN <<>>
    ELSE LET subset == Subset(rows, pairs[1].llm, pairs[1].decision)
         IN  [i \in DOMAIN subset |-> Text(subset[i])]
               \o RenderTexts(rows, Tail(pairs))

\* adjust_text(texts, ...) receives every text object; where it moves them is
\* not modelled: texts keeps the positions the objects were created at.
Render ==
    /\ pc = "render"
    /\ LET pairs == LoopPairs(Sorted(top_llms), Sorted(top_decision_points))
       IN  /\ scatters' = RenderScatters(top_df, pairs, llm_markers, decision_colors)
           /\ texts' = RenderTexts(top_df, pairs)
    /\ pc' = "legends"
    /\ UNCHANGED <<csv, loadVars, prompt_abbrev, prompt_mapping, filterVars,
                   encodeVars, legendVars, axesVars, files>>

\* ------------------------------------------------------------ legends (lines 109-149)
\* The model's legend label: the text after the last '/', cut before the
\* first '-', its first letter uppercased.
ModelName(llm) ==
    LET name == Last(Split(llm, "/"))
        word == IF "-" \in Range(name) THEN Split(name, "-")[1] ELSE name
    IN  IF word = <<>> THEN word
        ELSE <<UpperChar(word[1])>> \o Tail(word)

\* plt.Line2D([0], [0], marker=..., color='w', markerfacecolor=..., label=...)
Line2D(marker, face, label) ==
    [marker |-> marker, markerfacecolor |-> face, label |-> label]

LegendElements(ls, ds, mks, cols) ==
    LET sl == Sorted(ls)
        sd == Sorted(ds)
    IN  [i \in DOMAIN sl |-> Line2D(mks[sl[i]], "gray", ModelName(sl[i]))]
          \o [i \in DOMAIN sd |->
                 Line2D("o", cols[sd[i]], Replace(sd[i], "_", " "))]

\* Mutant: the slice is taken at len(top_decision_points).
LlmLegend_by_decisions(elements, ls) ==
    [title |-> "LLM Model",
     handles |-> SubSeq(elements, 1, Len(top_decision_points))]

\* legend_elements[:len(top_llms)]
LlmLegend(elements, ls) ==
    [title |-> "LLM Model", handles |-> SubSeq(elements, 1, Len(ls))]

\* legend_elements[len(top_llms):]
DecisionLegend(elements, ls) ==
    [title |-> "SSVC Decision Point",
     handles |-> SubSeq(elements, Len(ls) + 1, Len(elements))]

Legends ==
    /\ pc = "legends"
    /\ legend_elements' = LegendElements(top_llms, top_decision_points,
                                         llm_markers, decision_colors)
    /\ llm_legend' = LlmLegend(legend_elements', top_llms)
    /\ decision_legend' = DecisionLegend(legend_elements', top_llms)
    /\ pc' = "axes"
    /\ UNCHANGED <<csv, loadVars, prompt_abbrev, prompt_mapping, filterVars,
                   encodeVars, renderVars, axesVars, files>>

\* ------------------------------------------------------------ axes (lines 151-173)
\* ax.set_xticks(range(len(prompts)))
XTicks(ps) == [i \in DOMAIN ps |-> i - 1]

\* [prompt_abbrev[prompt] for prompt in sorted(prompts)]
XTickLabels(ps, abbrev) ==
    LET order == Sorted(ps)
    IN  [i \in DOMAIN order |-> abbrev[order[i]]]

\* Python's max over the column.
Max(s) == CHOOSE m \in Range(s) : \A v \in Range(s) : v <= m

\* Mutant: the lower limit follows the data (0.95 times the lowest score).
YLim_padded_min(rows) ==
    LET col == Column(rows, "f1_harmonic_mean")
    IN  <<(CHOOSE m \in Range(col) : \A v \in Range(col) : m <= v) * 95,
          Max(col) * YPad>>

\* ax.set_ylim(y_min, max(top_df['f1_harmonic_mean']) * 1.05)
YLim(rows) == <<YMin, Max(Column(rows, "f1_harmonic_mean")) * YPad>>

Axes ==
    /\ pc = "axes"
    /\ xticks' = XTicks(prompts)
    /\ xticklabels' = XTickLabels(prompts, prompt_abbrev)
    /\ ylim' = YLim(top_df)
    /\ pc' = "save_pdf"
    /\ UNCHANGED <<csv, loadVars, prompt_abbrev, prompt_mapping, filterVars,
                   encodeVars, renderVars, legendVars, files>>

\* ------------------------------------------------------------ export (lines 175-181)
restOfRun == <<csv, loadVars, prompt_abbrev, prompt_mapping, filterVars,
               encodeVars, renderVars, legendVars, axesVars>>

\* plt.savefig(name, ...): the file is written when the call returns.
savefig(name, next) ==
    /\ files' = Append(files, name)
    /\ pc' = next
    /\ UNCHANGED restOfRun

SavePdf == pc = "save_pdf" /\ savefig(PDF, "save_png")

SavePng == pc = "save_png" /\ savefig(PNG, "save_tiff")

\* Mutant: the third call writes the PNG name again.
SaveTiff_png_again == pc = "save_tiff" /\ savefig(PNG, "save_eps")

SaveTiff == pc = "save_tiff" /\ savefig(TIFF, "save_eps")

SaveEps == pc = "save_eps" /\ savefig(EPS, "done")

\* The run has neither completed nor ended on an error.
Running == pc \notin {"done", "aborted"}

\* A statement of the block about to run raises (the input file or one of
\* its columns is missing, a score is not a number, an output file cannot
\* be written or its format has no writer, ...): nothing catches the error
\* and the process ends there, with what was assigned and written so far.
Fail ==
    /\ Running
    /\ pc' = "aborted"
    /\ UNCHANGED <<files, restOfRun>>

Next ==
    \/ Load
    \/ Abbreviate
    \/ MapPrompts
    \/ Filter
    \/ Encode
    \/ Render
    \/ Legends
    \/ Axes
    \/ SavePdf
    \/ SavePng
    \/ SaveTiff
    \/ SaveEps
    \/ Fail

Spec == Init /\ [][Next]_vars

SpecWide == InitWide /\ [][Next]_vars

\* ------------------------------------------------------------ properties
\* Where the result of a block is looked at: when the block has just run
\* and when the run has completed (no later block assigns what it has set).
AfterAbbreviate == {"map", "done"}
AfterMap == {"filter", "done"}
AfterFilter == {"encode", "done"}
AfterEncode == {"render", "done"}
AfterRender == {"legends", "done"}
AfterLegends == {"axes", "done"}
AfterAxes == {"save_pdf", "done"}

Min2(a, b) == IF a < b THEN a ELSE b

\* The multiset of the elements of a sequence.
BagOf(s) == [x \in Range(s) |-> Cardinality({i \in DOMAIN s : s[i] = x})]

\* The techniques, models and categories as sets.
Techniques == {csv[i].prompt : i \in DOMAIN csv}
TopModels == {top_df[i].llm : i \in DOMAIN top_df}
TopDecisions == {top_df[i].ssvc_decision_point : i \in DOMAIN top_df}

\* The position of a string in the ascending order of a set of strings.
Rank(x, S) == Cardinality({y \in S : StrLess(y, x)})

\* The rows of technique t in the table and in the subset, as sets (a row
\* carries its index, so equal records stay apart).
AllOf(t) == {r \in Range(df) : r.prompt = t}
KeptOf(t) == {r \in Range(top_df) : r.prompt = t}

\* C1: once the filter has run, for every technique t with n_t records the
\* subset holds exactly min(5, n_t) rows of t, each of them a row of the table
\* with prompt t and none of them twice, no row of t left out scores strictly
\* higher than a row of t kept, and the subset has at most 5 rows per
\* technique in all.
Top5Filter ==
    pc \in AfterFilter =>
        /\ \A t \in Techniques :
              /\ Len(RowsOf(top_df, t)) = Min2(TopN, Len(RowsOf(df, t)))
              /\ Cardinality(KeptOf(t)) = Len(RowsOf(top_df, t))
              /\ KeptOf(t) \subseteq AllOf(t)
              /\ \A out \in AllOf(t) \ KeptOf(t) : \A in \in KeptOf(t) :
                    out.f1_harmonic_mean <= in.f1_harmonic_mean
        /\ \A i \in DOMAIN top_df : top_df[i].prompt \in Techniques
        /\ Len(top_df) <= TopN * Cardinality(Techniques)

\* A technique with more than 5 rows has been cut, a lower score left out,
\* beside a technique with fewer than 5 rows.
Top5FilterWitness ==
    /\ pc \in AfterFilter
    /\ \E t \in Techniques :
          /\ Len(RowsOf(df, t)) > TopN
          /\ \E out \in AllOf(t) \ KeptOf(t) : \E in \in KeptOf(t) :
                out.f1_harmonic_mean < in.f1_harmonic_mean
    /\ \E t \in Techniques : Len(RowsOf(df, t)) < TopN

\* C2 as stated: when the process has ended, all four files are written or
\* none is.
AllOrNothing ==
    pc \in {"done", "aborted"} => Len(files) \in {0, 4}

ExportOrder == <<PDF, PNG, TIFF, EPS>>

\* The savefig calls that have returned when block b is about to run.
SavedBefore(b) ==
    CASE b = "save_png" -> 1
      [] b = "save_tiff" -> 2
      [] b = "save_eps" -> 3
      [] b = "done" -> 4
      [] OTHER -> 0

\* C2, amended: the files written are always the first k of PDF, PNG, TIFF,
\* EPS, in that order, k being the number of savefig calls that returned; an
\* uncaught error writes and removes nothing, so a run that completes has
\* written all four, a run that fails before the first savefig returns has
\* written none, and a run that fails in the k+1-st savefig leaves k.
ExportPrefix ==
    /\ [](/\ files = SubSeq(ExportOrder, 1, Len(files))
          /\ pc # "aborted" => Len(files) = SavedBefore(pc)
          /\ pc = "aborted" => Len(files) < 4)
    /\ [][pc' = "aborted" => files' = files /\ Len(files) = SavedBefore(pc)]_vars

\* A run that ended on an error with two of the four files written.
ExportPrefixWitness ==
    pc = "aborted" /\ files = <<PDF, PNG>>

\* C3 as stated: the number of distinct marker shapes equals the number of
\* distinct models of the subset taken mod 12.
MarkerCountMod12 ==
    pc \in AfterEncode =>
        Cardinality({llm_markers[l] : l \in DOMAIN llm_markers})
            = Cardinality(TopModels) % Len(markers)

\* C3, amended: the models given a marker are the distinct models of the
\* subset, the i-th of them in ascending order (from 0) gets
\* markers[i mod 12], and the number of distinct shapes is the number of
\* distinct models when that is at most 12, and 12 otherwise.
MarkerEncoding ==
    pc \in AfterEncode =>
        /\ DOMAIN llm_markers = TopModels
        /\ \A l \in TopModels :
              llm_markers[l] = markers[(Rank(l, TopModels) % Len(markers)) + 1]
        /\ Cardinality({llm_markers[l] : l \in DOMAIN llm_markers})
              = Min2(Cardinality(TopModels), Len(markers))

\* More models than shapes: the 13th model wraps around to the first shape.
MarkerEncodingWitness ==
    /\ pc \in AfterEncode
    /\ Cardinality(TopModels) > Len(markers)
    /\ \E l \in TopModels : Rank(l, TopModels) = Len(markers)
                               /\ llm_markers[l] = markers[1]
    /\ top_llms # Sorted(top_llms)

\* C4: the number of distinct colors equals the number of distinct
\* categories of the subset, each category having a color of its own.
ColorsInjective ==
    pc \in AfterEncode =>
        /\ DOMAIN decision_colors = TopDecisions
        /\ Cardinality({decision_colors[d] : d \in DOMAIN decision_colors})
              = Cardinality(TopDecisions)

\* C5: the lower y limit is 0.5 and the upper one is 1.05 times the largest
\* score of the subset.
YLimits ==
    pc \in AfterAxes =>
        /\ ylim[1] = 50000
        /\ \E i \in DOMAIN top_df : ylim[2] = 105 * top_df[i].f1_harmonic_mean
        /\ \A i \in DOMAIN top_df : ylim[2] >= 105 * top_df[i].f1_harmonic_mean

\* The limits are set for a subset with a score below 0.5 and a larger one.
YLimitsWitness ==
    /\ pc \in AfterAxes
    /\ \E i, j \in DOMAIN top_df :
          /\ top_df[i].f1_harmonic_mean < 500
          /\ top_df[j].f1_harmonic_mean > top_df[i].f1_harmonic_mean

\* C6: a row of technique t is drawn at x = the position of t in the
\* ascending order of all techniques of the table; the ticks are 0 .. n-1
\* for the n techniques of the table, and the tick at the position of t is
\* labelled with the abbreviation of t.
TickAlignment ==
    pc \in AfterAxes =>
        /\ \A i \in DOMAIN top_df :
              top_df[i].prompt_numeric = Rank(top_df[i].prompt, Techniques)
        /\ \A k \in DOMAIN scatters :
              scatters[k].x =
                Column(Subset(top_df, scatters[k].llm, scatters[k].decision),
                       "prompt_numeric")
        /\ Len(xticks) = Cardinality(Techniques)
        /\ \A k \in DOMAIN xticks : xticks[k] = k - 1
        /\ Len(xticklabels) = Len(xticks)
        /\ \A t \in Techniques :
              xticklabels[Rank(t, Techniques) + 1] = prompt_abbrev[t]

\* Three techniques that appear in the file in another order than the
\* sorted one, all of them drawn.
TickAlignmentWitness ==
    /\ pc \in AfterAxes
    /\ Cardinality(Techniques) = 3
    /\ prompts # Sorted(prompts)
    /\ \E i \in DOMAIN top_df : top_df[i].prompt_numeric = 2

\* The positions at which the words of an underscore-delimited name start.
WordStarts(t) == {1} \cup {k + 1 : k \in {j \in DOMAIN t : t[j] = "_"}}

NthStart(t, i) ==
    CHOOSE k \in WordStarts(t) :
        Cardinality({j \in WordStarts(t) : j < k}) = i - 1

ScatterPoints ==
    Join([k \in DOMAIN scatters |->
            [i \in DOMAIN scatters[k].x |->
                [llm |-> scatters[k].llm, decision |-> scatters[k].decision,
                 x |-> scatters[k].x[i], y |-> scatters[k].y[i],
                 c |-> scatters[k].c[i], marker |-> scatters[k].marker]]])

DigitValue(c) == PosIn(c, Digits) - 1

\* s is the decimal d.dd nearest to the score f (in thousandths).
TwoDecimals(s, f) ==
    /\ Len(s) = 4
    /\ s[2] = "."
    /\ \A i \in {1, 3, 4} : s[i] \in Range(Digits)
    /\ LET h == 100 * DigitValue(s[1]) + 10 * DigitValue(s[3]) + DigitValue(s[4])
       IN  10 * h - 5 < f /\ f < 10 * h + 5

\* C8: one scatter series for each (model, category) pair of the subset and
\* none for another pair; every row of the subset is one point of the series
\* of its own pair, with that pair's marker and color, and has one label, its
\* score to two decimals at x + 0.15 and the same y; there are as many labels
\* as rows, equal rows counted each.
RenderOnce ==
    pc \in AfterRender =>
        /\ \A k, m \in DOMAIN scatters :
              k # m => <<scatters[k].llm, scatters[k].decision>>
                         # <<scatters[m].llm, scatters[m].decision>>
        /\ \A k \in DOMAIN scatters : scatters[k].x # <<>>
        /\ BagOf(ScatterPoints) =
              BagOf([i \in DOMAIN top_df |->
                       [llm |-> top_df[i].llm,
                        decision |-> top_df[i].ssvc_decision_point,
                        x |-> top_df[i].prompt_numeric,
                        y |-> top_df[i].f1_harmonic_mean,
                        c |-> decision_colors[top_df[i].ssvc_decision_point],
                        marker |-> llm_markers[top_df[i].llm]]])
        /\ Len(texts) = Len(top_df)
        /\ BagOf([k \in DOMAIN texts |-> <<texts[k].x, texts[k].y>>]) =
              BagOf([i \in DOMAIN top_df |->
                       <<100 * top_df[i].prompt_numeric + 15,
                         top_df[i].f1_harmonic_mean>>])
        /\ \A k \in DOMAIN texts : TwoDecimals(texts[k].s, texts[k].y)

\* The subset holds two equal rows and a model and a category that never
\* occur together.
RenderOnceWitness ==
    /\ pc \in AfterRender
    /\ \E i, j \in DOMAIN top_df :
          /\ i # j
          /\ top_df[i].llm = top_df[j].llm
          /\ top_df[i].prompt = top_df[j].prompt
          /\ top_df[i].ssvc_decision_point = top_df[j].ssvc_decision_point
          /\ top_df[i].f1_harmonic_mean = top_df[j].f1_harmonic_mean
    /\ \E l \in TopModels : \E d \in TopDecisions :
          Subset(top_df, l, d) = <<>>
    /\ Len(scatters) > 1

\* The text after the last '/', cut before its first '-', first letter
\* uppercased.
CleanName(l) ==
    LET slashes == {k \in DOMAIN l : l[k] = "/"}
        p == IF slashes = {} THEN 0
             ELSE CHOOSE k \in slashes : \A j \in slashes : j <= k
        hyphens == {k \in (p + 1)..Len(l) : l[k] = "-"}
        q == IF hyphens = {} THEN Len(l) + 1
             ELSE CHOOSE k \in hyphens : \A j \in hyphens : k <= j
    IN  [k \in 1..(q - 1 - p) |->
            IF k = 1 THEN UpperChar(l[p + 1]) ELSE l[p + k]]

\* C9: legend_elements is the model entries, in ascending order of the
\* models, followed by the category entries, in ascending order of the
\* categories; the 'LLM Model' legend holds exactly the former and the 'SSVC
\* Decision Point' legend exactly the latter; a model entry carries the
\* model's marker and cleaned name, a category entry the category's color
\* and its name with spaces for underscores.
LegendPartition ==
    pc \in AfterLegends =>
        /\ llm_legend.title = "LLM Model"
        /\ decision_legend.title = "SSVC Decision Point"
        /\ llm_legend.handles \o decision_legend.handles = legend_elements
        /\ Len(llm_legend.handles) = Cardinality(TopModels)
        /\ Len(decision_legend.handles) = Cardinality(TopDecisions)
        /\ \A l \in TopModels :
              llm_legend.handles[Rank(l, TopModels) + 1] =
                [marker |-> llm_markers[l], markerfacecolor |-> "gray",
                 label |-> CleanName(l)]
        /\ \A d \in TopDecisions :
              decision_legend.handles[Rank(d, TopDecisions) + 1] =
                [marker |-> "o", markerfacecolor |-> decision_colors[d],
                 label |-> [k \in DOMAIN d |-> IF d[k] = "_" THEN " " ELSE d[k]]]

\* Three models (with and without '/' and '-') and fewer categories, one of
\* them with an underscore, first seen in another order than the sorted one.
LegendPartitionWitness ==
    /\ pc \in AfterLegends
    /\ Cardinality(TopModels) = 3
    /\ Cardinality(TopDecisions) = 2
    /\ top_llms # Sorted(top_llms)
    /\ \E k \in DOMAIN legend_elements :
          legend_elements[k].label = <<"L", "l", "a", "m", "a">>

\* The rows of a table in one fixed order, whatever order they came in: by
\* technique, then model, then category, then score.
RowBefore(a, b) ==
    IF a.prompt # b.prompt THEN StrLess(a.prompt, b.prompt)
    ELSE IF a.llm # b.llm THEN StrLess(a.llm, b.llm)
    ELSE IF a.ssvc_decision_point # b.ssvc_decision_point
         THEN StrLess(a.ssvc_decision_point, b.ssvc_decision_point)
    ELSE a.f1_harmonic_mean < b.f1_harmonic_mean

RECURSIVE InsertRow(_, _)
InsertRow(r, s) ==
    IF s = <<>> THEN <<r>>
    ELSE IF RowBefore(s[1], r) THEN <<s[1]>> \o InsertRow(r, Tail(s))
    ELSE <<r>> \o s

RECURSIVE Reordered(_)
Reordered(rows) ==
    IF rows = <<>> THEN <<>> ELSE InsertRow(rows[1], Reordered(Tail(rows)))

\* The subset the script computes from a file.
RunTopDf(file) ==
    LET d == read_csv(file)
        ps == Unique(Column(d, "prompt"))
    IN  TopDf(WithPromptNumeric(d, PromptMapping(ps)), ps)

\* The records of a table as a multiset, row indexes dropped.
Records(rows) ==
    BagOf([i \in DOMAIN rows |->
             Row(rows[i].llm, rows[i].prompt, rows[i].ssvc_decision_point,
                 rows[i].f1_harmonic_mean)])

\* The run on the same records in the fixed order gives the same subset (as
\* a multiset) and the same two maps.  The tables of Spec hold every row
\* order of their records and all of these have the same fixed order, so two
\* tables that agree with it agree with each other.
SameAsReordered ==
    LET other == RunTopDf(Reordered(csv))
    IN  /\ Records(other) = Records(top_df)
        /\ LlmMarkers(Unique(Column(other, "llm"))) = llm_markers
        /\ DecisionColors(Unique(Column(other, "ssvc_decision_point")))
              = decision_colors

\* C10 as stated: the subset and the two maps depend on the multiset of
\* records only, not on the order of the rows, ties at the 5th place included.
OrderIndependent ==
    pc \in AfterEncode => SameAsReordered

\* No row left out of the subset has the score of a kept row of its
\* technique.
NoTieAcrossCut ==
    \A t \in Techniques :
        \A out \in AllOf(t) \ KeptOf(t) : \A in \in KeptOf(t) :
            out.f1_harmonic_mean # in.f1_harmonic_mean

\* C10, amended: the subset and the two maps do not depend on the order of
\* the rows when no technique has a row left out that ties on score with a
\* row kept.
OrderIndependentNoTie ==
    (pc \in AfterEncode /\ NoTieAcrossCut) => SameAsReordered

\* A technique is cut with no tie across the cut, in a file whose rows are
\* not in the fixed order.
OrderIndependentNoTieWitness ==
    /\ pc \in AfterEncode
    /\ NoTieAcrossCut
    /\ \E t \in Techniques : AllOf(t) # KeptOf(t)
    /\ csv # Reordered(csv)
    /\ Cardinality(TopModels) > 1

=============================================================================
